---- MODULE Spec2Model ----
(***************************************************************************)
(* ReplicaDriver (src/driver.ts): a Kysely driver that wraps a read-side   *)
(* and a write-side driver.  Each logical connection owns one underlying   *)
(* connection of each side; the set #transactions (ids of the connections  *)
(* inside beginTransaction .. commit/rollback) decides, together with the  *)
(* statement kind, which side serves a query.                              *)
(***************************************************************************)
EXTENDS Naturals, FiniteSets, Sequences, TLC

\* ------------------------------------------------------------------ bounds
\* number of acquireConnection() calls explored
MaxAcq == 2

ConnIds == 1..MaxAcq

\* at most this many of them where the databases are modelled too
MaxStoreAcq == 1

\* ---------------------------------------------------------- value domains
\* root node kinds of a compiled query (compiledQuery.query.kind)
Kinds == {"SelectQueryNode", "InsertQueryNode", "CreateTableNode"}

\* TransactionSettings values handed to beginTransaction
Settings == {"default", "serializable"}

\* values the caller can put into config.pools.read / config.pools.write:
\* two pool objects, two distinct factory functions that both return the
\* pool object p1, and one factory that creates a new pool per invocation
PoolObjects == {"p1", "p2"}
Factories == {"getP1", "getP1b", "mkPool"}
Handles == PoolObjects \cup Factories

\* pools a run can see: the two pool objects and the two pools mkPool can
\* create (one per driver)
Pools == {"p1", "p2", "m1", "m2"}

\* the shapes of config.pools a caller can pass, up to renaming of pools:
\* one pool object for both roles, two pool objects, one factory for both
\* roles (returning a shared pool, or creating a pool per call) and two
\* factories returning the same pool
Configs ==
  { [read |-> "p1", write |-> "p1"],
    [read |-> "p1", write |-> "p2"],
    [read |-> "getP1", write |-> "getP1"],
    [read |-> "getP1", write |-> "getP1b"],
    [read |-> "mkPool", write |-> "mkPool"] }

Sides == {"read", "write"}

NoLast == [op |-> "none", c |-> 0, kind |-> "-", side |-> "-", conn |-> <<"-", 0>>,
           inTx |-> FALSE, hist |-> "-", arg |-> "-", settings |-> "-",
           result |-> "-", calls |-> {}, returned |-> "-"]

\* a row is named by the connection that inserted it and by whether its
\* caller was inside a transaction it had begun successfully ("tx") or not
\* ("ok"); a committed row is renamed to "ok"
Rows == ConnIds \X {"tx", "ok"}

\* tx: members with an open database transaction; pending: rows written in
\* such a transaction; store: rows visible in the database behind a pool;
\* intent: connections whose caller is inside a transaction it began
\* successfully; result: rows the last commit made visible or the last
\* rollback discarded, or the rows the last select returned; cursor: the
\* stream a streamQuery call returned last (the connection and statement it
\* was called with, the member that produced it and whether the connection
\* was in the registry then); served: the last chunk read from it
NoCursor == [c |-> 0, kind |-> "-", m |-> <<"-", 0>>, inTx |-> FALSE]

NoServed == [c |-> 0, kind |-> "-", by |-> <<"-", 0>>, openedInTx |-> FALSE,
             inTxNow |-> FALSE]

NoDb == [tx |-> {}, pending |-> {}, store |-> {}, intent |-> {}, result |-> {},
         cursor |-> NoCursor, served |-> NoServed]

\* ------------------------------------------------------------------ state
VARIABLES
  config,        \* #config.pools: [read, write] handles as passed by the caller
  phase,         \* "new" (constructed), "ready" (init() done), "initFailed",
                 \* "destroyed"
  resolved,      \* pool each underlying driver resolved in its init(), or "none"
  closed,        \* pools whose end() has been invoked
  teardowns,     \* pool -> number of end() invocations it received
  destroyResult, \* outcome of ReplicaDriver.destroy(): "-", "ok", "error"
  teardownFault, \* TRUE once the end() of a still open pool reported an error
  consoleLines,  \* number of console.log lines written
  transactions,  \* #transactions: Set of connection ids
  conn,          \* per acquireConnection() call: its state and both members
  hist,          \* history: "none" | "begun" | "ended" per connection
  last,          \* the last call the router handed to an underlying driver
  db,            \* the databases behind the pools, as far as they are observed
  ctor,          \* what the constructor was given and what came of it
  init           \* what init() did and what came of it

vars == <<config, phase, resolved, closed, teardowns, destroyResult,
          teardownFault, consoleLines, transactions, conn, hist, last, db,
          ctor, init>>

lifecycleVars == <<config, phase, resolved, closed, teardowns, destroyResult,
                   teardownFault, consoleLines, ctor, init>>

\* ---------------------------------------------------------------- helpers
IsFunction(h) == h \in Factories

\* what a pool handle yields when the owning underlying driver runs init():
\* a pool object is used as it is, a factory is invoked (n = 1 for the read
\* driver, whose init() runs first, n = 2 for the write driver)
ResolveHandle(h, n) ==
  IF ~IsFunction(h) THEN h
  ELSE IF h = "mkPool" THEN (IF n = 1 THEN "m1" ELSE "m2")
  ELSE "p1"

\* const connectionId = crypto.randomUUID(): a fresh id for every
\* acquisition, so the id of acquisition c is modelled as c itself
connectionId_Shared(c) == MaxAcq

connectionId(c) == c

SelectQueryNodeIs(kind) == kind = "SelectQueryNode"

\* the underlying connection a logical connection holds on a side
Member(c, side) == <<side, c>>

Live(c) == conn[c].st = "live"

\* whether the pool of a side is still open: an open pool hands out a
\* connection when nothing else goes wrong, an ended pool has closed its
\* connections and hands out none
PoolOpen(side) == resolved[side] # "none" /\ resolved[side] \notin closed

\* ---------------------------------------------------------------- routing
\* variants of the routing with a plausible slip, used to test the properties
executeQuerySide_IgnoresTransaction(c, kind) ==
  IF SelectQueryNodeIs(kind) THEN "read" ELSE "write"

executeQuerySide_AlwaysWrite(c, kind) == "write"

executeQuerySide_BranchesSwapped(c, kind) ==
  IF connectionId(c) \in transactions THEN "write"
  ELSE IF SelectQueryNodeIs(kind) THEN "write" ELSE "read"

\* executeQuery closure of acquireConnection
executeQuerySide(c, kind) ==
  IF connectionId(c) \in transactions THEN "write"
  ELSE IF SelectQueryNodeIs(kind) THEN "read" ELSE "write"

\* "Streaming is always done via read"
streamQuerySide_AlwaysRead(c, kind) == "read"

streamQuerySide_IgnoresTransaction(c, kind) ==
  IF SelectQueryNodeIs(kind) THEN "read" ELSE "write"

\* streamQuery closure of acquireConnection
streamQuerySide(c, kind) ==
  IF connectionId(c) \in transactions THEN "write"
  ELSE IF SelectQueryNodeIs(kind) THEN "read" ELSE "write"

\* ------------------------------------------------------- registry updates
beginTransactionRegistry(c) == transactions \cup {connectionId(c)}

commitTransactionRegistry_Keeps(c) == transactions

commitTransactionRegistry(c) == transactions \ {connectionId(c)}

rollbackTransactionRegistry_Keeps(c) == transactions

rollbackTransactionRegistry(c) == transactions \ {connectionId(c)}

releaseConnectionRegistry_Removes(c) == transactions \ {connectionId(c)}

\* release() of replicaConnection only releases the two members
releaseConnectionRegistry(c) == transactions

beginTransactionSettings_Dropped(settings) == "default"

\* settings argument beginTransaction hands to the write driver
beginTransactionSettings(settings) == settings

TransactionSide_Read == "read"

\* beginTransaction(): this.#writeDriver.beginTransaction(connection.write, settings)
TransactionSide == "write"

\* commitTransaction(): this.#writeDriver.commitTransaction(connection.write)
commitTransactionSide == "write"

\* rollbackTransaction(): this.#writeDriver.rollbackTransaction(connection.write)
rollbackTransactionSide_Read == "read"

rollbackTransactionSide == "write"

\* ------------------------------------------------------------------- init
\* ------------------------------------------------------------ constructor
Types == {"mysql", "pg", "whatever"}

IsSupportedType_Any(type) == TRUE

\* the two cases of the constructor's switch
IsSupportedType(type) == type \in {"mysql", "pg"}

\* the config object names its pools as pools: { read, write }; a config
\* with a single pool: ... entry has no pools entry
Shapes == {"pools", "pool"}

NoCtor == [type |-> "-", shape |-> "-", result |-> "none", error |-> "-",
           drivers |-> {}]

\* a supported type reads pools.read and pools.write and creates the driver
\* of each side; reading pools.read of a config without a pools entry
\* throws a TypeError before the first driver is created.  Any other type
\* throws from the default case, where no driver has been created
constructorOutcome(type, shape) ==
  IF ~IsSupportedType(type)
    THEN [type |-> type, shape |-> shape, result |-> "threw",
          error |-> "Only MySQL and Postgres are supported", drivers |-> {}]
  ELSE IF shape = "pools"
    THEN [type |-> type, shape |-> shape, result |-> "ok", error |-> "-",
          drivers |-> Sides]
    ELSE [type |-> type, shape |-> shape, result |-> "threw",
          error |-> "TypeError", drivers |-> {}]

\* called: the sides whose driver's init() was called, in order; rejected:
\* the sides whose pool factory rejected; invoked: how often each factory
\* function has been invoked; result: how init() ended
NoInit == [called |-> <<>>, rejected |-> {}, invoked |-> [f \in Factories |-> 0],
           result |-> "-"]

\* everything but the constructor's outcome
InitRest ==
  /\ config \in Configs
  /\ phase = "new"
  /\ resolved = [s \in Sides |-> "none"]
  /\ closed = {}
  /\ teardowns = [p \in Pools |-> 0]
  /\ destroyResult = "-"
  /\ teardownFault = FALSE
  /\ consoleLines = 0
  /\ transactions = {}
  /\ conn = [c \in ConnIds |-> [st |-> "none", rd |-> "idle", wr |-> "idle"]]
  /\ hist = [c \in ConnIds |-> "none"]
  /\ last = NoLast
  /\ db = NoDb
  /\ init = NoInit

\* a driver constructed for MySQL, the database the repository's tests run
\* against; the type enters no later step
Init == InitRest /\ ctor = constructorOutcome("mysql", "pools")

Construct(type, shape) ==
  /\ ctor.result = "none"
  /\ ctor' = constructorOutcome(type, shape)
  /\ UNCHANGED <<config, phase, resolved, closed, teardowns, destroyResult,
                 teardownFault, consoleLines, transactions, conn, hist, last, db,
                 init>>

\* ------------------------------------------------------------------- init()
\* awaits readDriver.init() and then writeDriver.init(); each resolves its
\* own pool handle
\* the order in which init() awaits the init() of the two drivers
initOrder == <<"read", "write">>

initOutcome_IgnoresSecond(firstOk, secondOk) == IF firstOk THEN "ok" ELSE "error"

initOutcome_Swallowed(firstOk, secondOk) == "ok"

\* init() resolves when both awaits have resolved and rejects with the
\* first one that rejects
initOutcome(firstOk, secondOk) == IF firstOk /\ secondOk THEN "ok" ELSE "error"

ConfiguredHandle(side) == IF side = "read" THEN config.read ELSE config.write

\* a driver's init() takes its pool object as it is and invokes its pool
\* factory; only a factory can reject.  faults: the sides whose factory
\* rejects when it is invoked.  The second await is not reached when the
\* first one rejects
DriverInit(faults) ==
  /\ phase = "new"
  /\ \A s \in faults : IsFunction(ConfiguredHandle(s))
  /\ LET first == initOrder[1]
         second == initOrder[2]
         firstOk == first \notin faults
         secondOk == second \notin faults
         done(side) == IF side = first THEN firstOk ELSE firstOk /\ secondOk
         reached(side) == side = first \/ firstOk
         nth(side) == IF side = "read" THEN 1 ELSE 2
     IN /\ firstOk \/ second \notin faults
        /\ resolved' = [s \in Sides |->
                          IF done(s) THEN ResolveHandle(ConfiguredHandle(s), nth(s))
                          ELSE "none"]
        /\ init' = [called |-> IF firstOk THEN initOrder ELSE <<first>>,
                    rejected |-> faults,
                    invoked |-> [f \in Factories |->
                                   Cardinality({s \in Sides :
                                     reached(s) /\ ConfiguredHandle(s) = f})],
                    result |-> initOutcome(firstOk, secondOk)]
        /\ phase' = IF initOutcome(firstOk, secondOk) = "ok" THEN "ready"
                    ELSE "initFailed"
  /\ UNCHANGED <<config, closed, teardowns, destroyResult, teardownFault,
                 consoleLines, transactions, conn, hist, last, db, ctor>>

\* ------------------------------------------------------ acquireConnection()
\* Promise.all([readDriver.acquireConnection(), writeDriver.acquireConnection()]):
\* both calls are made while the array is built, before anything is awaited
acquireConnectionIssued_Sequential == [st |-> "pending", rd |-> "waiting", wr |-> "idle"]

acquireConnectionIssued == [st |-> "pending", rd |-> "waiting", wr |-> "waiting"]

\* the call issues both underlying acquisitions inside one Promise.all
AcquireStart(c) ==
  /\ phase # "new"
  /\ conn[c].st = "none"
  /\ \A d \in ConnIds : d < c => conn[d].st # "none"
  /\ conn' = [conn EXCEPT ![c] = acquireConnectionIssued]
  /\ UNCHANGED <<lifecycleVars, transactions, hist, last, db>>

SubState(c, side) == IF side = "read" THEN conn[c].rd ELSE conn[c].wr

WithSub(r, side, v) == IF side = "read" THEN [r EXCEPT !.rd = v] ELSE [r EXCEPT !.wr = v]

\* one underlying acquireConnection() settles.  Promise.all resolves when the
\* second one has succeeded and rejects when the first one fails; the other
\* acquisition then still runs to its end
SubAcquire(c, side, ok) ==
  /\ conn[c].st \in {"pending", "failed"}
  /\ SubState(c, side) = "waiting"
  /\ ok => PoolOpen(side)
  /\ LET r1 == WithSub(conn[c], side, IF ok THEN "held" ELSE "failed")
         st1 == IF conn[c].st = "failed" \/ ~ok THEN "failed"
                ELSE IF r1.rd = "held" /\ r1.wr = "held" THEN "live"
                ELSE "pending"
     IN conn' = [conn EXCEPT ![c] = [r1 EXCEPT !.st = st1]]
  /\ UNCHANGED <<lifecycleVars, transactions, hist, last, db>>

\* ------------------------------------------------- executeQuery / streamQuery
executeQueryCalls_Both(c, kind) == {Member(c, "read"), Member(c, "write")}

\* the member connections whose executeQuery the closure calls: each of its
\* three return statements makes one call, and one of them is reached
executeQueryCalls(c, kind) == {Member(c, executeQuerySide(c, kind))}

\* what the closure returns: the promise of the underlying call itself
executeQueryReturned(result) == result

\* the router's part of a call; the database's part is added below
ExecuteQueryRouter(c, kind) ==
  /\ Live(c)
  /\ LET side == executeQuerySide(c, kind)
         result == IF PoolOpen(side) THEN "ok" ELSE "error"
     IN last' = [NoLast EXCEPT !.op = "executeQuery", !.c = c, !.kind = kind,
                               !.side = side, !.conn = Member(c, side),
                               !.inTx = (connectionId(c) \in transactions), !.hist = hist[c],
                               !.result = result,
                               !.calls = executeQueryCalls(c, kind),
                               !.returned = executeQueryReturned(result)]
  /\ UNCHANGED <<lifecycleVars, transactions, conn, hist>>

ExecuteQuery(c, kind) == ExecuteQueryRouter(c, kind) /\ UNCHANGED db

\* the router's part of a streamQuery call
StreamQueryRouter(c, kind) ==
  /\ Live(c)
  /\ LET side == streamQuerySide(c, kind)
     IN last' = [NoLast EXCEPT !.op = "streamQuery", !.c = c, !.kind = kind,
                               !.side = side, !.conn = Member(c, side),
                               !.inTx = (connectionId(c) \in transactions), !.hist = hist[c],
                               !.result = IF PoolOpen(side) THEN "ok" ELSE "error"]
  /\ UNCHANGED <<lifecycleVars, transactions, conn, hist>>

StreamQuery(c, kind) == StreamQueryRouter(c, kind) /\ UNCHANGED db

\* ---------------------------------------------------------- transactions
\* ok: whether the write driver's call succeeds
BeginTransactionRouter(c, settings, ok) ==
  /\ Live(c)
  /\ transactions' = beginTransactionRegistry(c)
  /\ hist' = [hist EXCEPT ![c] = "begun"]
  /\ last' = [NoLast EXCEPT !.op = "beginTransaction", !.c = c,
                            !.side = TransactionSide,
                            !.conn = Member(c, TransactionSide),
                            !.arg = settings,
                            !.settings = beginTransactionSettings(settings),
                            !.result = IF ok THEN "ok" ELSE "error"]
  /\ UNCHANGED <<lifecycleVars, conn>>

BeginTransaction(c, settings, ok) ==
  BeginTransactionRouter(c, settings, ok) /\ UNCHANGED db

CommitTransactionRouter(c, ok) ==
  /\ Live(c)
  /\ transactions' = commitTransactionRegistry(c)
  /\ hist' = [hist EXCEPT ![c] = "ended"]
  /\ last' = [NoLast EXCEPT !.op = "commitTransaction", !.c = c,
                            !.side = commitTransactionSide,
                            !.conn = Member(c, commitTransactionSide),
                            !.result = IF ok THEN "ok" ELSE "error"]
  /\ UNCHANGED <<lifecycleVars, conn>>

CommitTransaction(c, ok) == CommitTransactionRouter(c, ok) /\ UNCHANGED db

RollbackTransactionRouter(c, ok) ==
  /\ Live(c)
  /\ transactions' = rollbackTransactionRegistry(c)
  /\ hist' = [hist EXCEPT ![c] = "ended"]
  /\ last' = [NoLast EXCEPT !.op = "rollbackTransaction", !.c = c,
                            !.side = rollbackTransactionSide,
                            !.conn = Member(c, rollbackTransactionSide),
                            !.result = IF ok THEN "ok" ELSE "error"]
  /\ UNCHANGED <<lifecycleVars, conn>>

RollbackTransaction(c, ok) == RollbackTransactionRouter(c, ok) /\ UNCHANGED db

\* ------------------------------------------------------ releaseConnection()
\* release(): await writeDriver.releaseConnection(writeConnection), then
\* await readDriver.releaseConnection(readConnection).  writeOk, readOk:
\* whether the write driver's and the read driver's release succeed
releaseOrder_ReadFirst == <<"read", "write">>

\* the order in which release() awaits the two underlying releases
releaseOrder == <<"write", "read">>

\* whether release() gets to release the member of a side, and succeeds:
\* the first await throws past the second one when it fails
ReleaseDone(side, writeOk, readOk) ==
  LET okOf(s) == IF s = "write" THEN writeOk ELSE readOk
  IN IF side = Head(releaseOrder) THEN okOf(side)
     ELSE okOf(Head(releaseOrder)) /\ okOf(side)

ReleaseConnection(c, writeOk, readOk) ==
  /\ Live(c)
  /\ conn' = [conn EXCEPT ![c] =
                [st |-> IF writeOk /\ readOk THEN "released" ELSE "releaseFailed",
                 wr |-> IF ReleaseDone("write", writeOk, readOk)
                          THEN "released" ELSE "held",
                 rd |-> IF ReleaseDone("read", writeOk, readOk)
                          THEN "released" ELSE "held"]]
  /\ transactions' = releaseConnectionRegistry(c)
  /\ UNCHANGED <<lifecycleVars, hist, last, db>>

\* ----------------------------------------------------------------- destroy()
SamePoolConfigured_NotChecked == FALSE

SamePoolConfigured_Always == TRUE

\* the config comparison of destroy(): the values passed in by the caller
SamePoolConfigured == config.read = config.write

\* drivers destroy() goes through, in order
DestroyOrder_WriteOnly == <<"write">>

DestroyOrder == IF SamePoolConfigured THEN <<"write">> ELSE <<"write", "read">>

\* console.log calls destroy() makes
DestroyConsoleLines == IF SamePoolConfigured THEN 2 ELSE 1

\* an underlying driver's destroy() ends its pool; ending a pool that was
\* already ended is an error.  A failing await ends ReplicaDriver.destroy()
\* at that point.  faults: the sides whose end() of a still open pool
\* reports an error
DestroyCall(faults) ==
  /\ faults \subseteq {DestroyOrder[i] : i \in 1..Len(DestroyOrder)}
  /\ LET first == resolved[DestroyOrder[1]]
         firstOpen == first \notin closed
         firstOk == firstOpen /\ DestroyOrder[1] \notin faults
         second == IF Len(DestroyOrder) = 2 THEN resolved[DestroyOrder[2]] ELSE "none"
         secondCalled == Len(DestroyOrder) = 2 /\ firstOk
         secondOpen == second # first /\ second \notin closed
         secondOk == secondOpen /\ DestroyOrder[2] \notin faults
     IN /\ DestroyOrder[1] \in faults => firstOpen
        /\ secondCalled \/ (faults \subseteq {DestroyOrder[1]})
        /\ (secondCalled /\ ~secondOpen) => "read" \notin faults
        /\ teardowns' = [p \in Pools |->
                           teardowns[p] + (IF p = first THEN 1 ELSE 0)
                                        + (IF secondCalled /\ p = second THEN 1 ELSE 0)]
        /\ closed' = closed \cup {first} \cup (IF secondCalled THEN {second} ELSE {})
        /\ destroyResult' = IF firstOk /\ (secondCalled => secondOk) THEN "ok" ELSE "error"
        /\ teardownFault' = (teardownFault \/ faults # {})
  /\ phase' = "destroyed"
  /\ consoleLines' = consoleLines + DestroyConsoleLines
  /\ UNCHANGED <<config, resolved, transactions, conn, hist, last, db, ctor, init>>

\* the destroy() call Kysely makes: its runtime driver calls destroy() of an
\* initialised driver once
Destroy(faults) ==
  /\ phase = "ready"
  /\ DestroyCall(faults)

\* number of destroy() calls made, and how many of them a run explores
DestroyCalls == consoleLines \div DestroyConsoleLines

MaxDestroy == 2

\* a caller that holds the driver calls destroy() once more: the method
\* keeps no record of an earlier call
DestroyAgain(faults) ==
  /\ phase = "destroyed"
  /\ DestroyCalls < MaxDestroy
  /\ DestroyCall(faults)

\* ------------------------------------------------------------------- next
\* The pools are healthy: an open pool hands out a connection, a release
\* succeeds and ending an open pool succeeds.  The database may still reject
\* a begin, commit or rollback.
Next ==
  \/ DriverInit({})
  \/ \E c \in ConnIds : AcquireStart(c)
  \/ \E c \in ConnIds, side \in Sides : SubAcquire(c, side, PoolOpen(side))
  \/ \E c \in ConnIds, kind \in Kinds : ExecuteQuery(c, kind)
  \/ \E c \in ConnIds, kind \in Kinds : StreamQuery(c, kind)
  \/ \E c \in ConnIds, s \in Settings, ok \in BOOLEAN : BeginTransaction(c, s, ok)
  \/ \E c \in ConnIds, ok \in BOOLEAN : CommitTransaction(c, ok)
  \/ \E c \in ConnIds, ok \in BOOLEAN : RollbackTransaction(c, ok)
  \/ \E c \in ConnIds : ReleaseConnection(c, TRUE, TRUE)
  \/ Destroy({})

Spec == Init /\ [][Next]_vars

\* Any call into an underlying driver may fail: acquiring from an open pool,
\* releasing a connection and ending an open pool too.  Two pool objects are
\* configured, so that each side has a pool of its own to fail.  Streams take
\* the same member connections as queries and are left to Spec.
FaultConfigs ==
  { [read |-> "p1", write |-> "p2"] }

FaultInit == Init /\ config \in FaultConfigs

FaultNext ==
  \/ DriverInit({})
  \/ \E c \in ConnIds : AcquireStart(c)
  \/ \E c \in ConnIds, side \in Sides, ok \in BOOLEAN : SubAcquire(c, side, ok)
  \/ \E c \in ConnIds, kind \in Kinds : ExecuteQuery(c, kind)
  \/ \E c \in ConnIds, s \in Settings, ok \in BOOLEAN : BeginTransaction(c, s, ok)
  \/ \E c \in ConnIds, ok \in BOOLEAN : CommitTransaction(c, ok)
  \/ \E c \in ConnIds, ok \in BOOLEAN : RollbackTransaction(c, ok)
  \/ \E c \in ConnIds, writeOk, readOk \in BOOLEAN :
       ReleaseConnection(c, writeOk, readOk)
  \/ \E faults \in SUBSET Sides : Destroy(faults)

FaultSpec == FaultInit /\ [][FaultNext]_vars

\* ------------------------------------------------------------- database
\* What the databases behind the pools do with the calls the router hands
\* to them.  m is the member connection that receives the call.
PoolOf(m) == resolved[m[1]]

PendingOf(d, m) == { e \in d.pending : e[1] = m }

StoredIn(d, pool) == { e[2] : e \in { x \in d.store : x[1] = pool } }

Visible_OwnPendingOnly(d, m) == { e[2] : e \in PendingOf(d, m) }

\* what a select on member m returns: the rows visible in the database
\* behind its pool and the rows of its own open transaction
Visible(d, m) == StoredIn(d, PoolOf(m)) \cup { e[2] : e \in PendingOf(d, m) }

RowTag(d, c) == IF c \in d.intent THEN "tx" ELSE "ok"

\* an insert inside an open database transaction stays pending, outside one
\* it is visible at once; other statements write no row
DbExecute(d, m, kind, c) ==
  IF kind = "SelectQueryNode" THEN [d EXCEPT !.result = Visible(d, m)]
  ELSE IF kind # "InsertQueryNode" THEN [d EXCEPT !.result = {}]
  ELSE IF m \in d.tx
    THEN [d EXCEPT !.pending = @ \cup {<<m, <<c, RowTag(d, c)>>>>}, !.result = {}]
    ELSE [d EXCEPT !.store = @ \cup {<<PoolOf(m), <<c, RowTag(d, c)>>>>},
                   !.result = {}]

DbBegin(d, m, c, ok) ==
  IF ok THEN [d EXCEPT !.tx = @ \cup {m}, !.intent = @ \cup {c}, !.result = {}]
        ELSE [d EXCEPT !.intent = @ \ {c}, !.result = {}]

\* a successful commit makes the pending rows of the member visible
DbCommit(d, m, c, ok) ==
  IF ok
    THEN [d EXCEPT !.tx = @ \ {m},
                   !.pending = @ \ PendingOf(d, m),
                   !.store = @ \cup { <<PoolOf(m), <<e[2][1], "ok">>>> :
                                        e \in PendingOf(d, m) },
                   !.intent = @ \ {c},
                   !.result = { e[2] : e \in PendingOf(d, m) }]
    ELSE [d EXCEPT !.intent = @ \ {c}, !.result = {}]

\* a successful rollback discards them
DbRollback(d, m, c, ok) ==
  IF ok
    THEN [d EXCEPT !.tx = @ \ {m},
                   !.pending = @ \ PendingOf(d, m),
                   !.intent = @ \ {c},
                   !.result = { e[2] : e \in PendingOf(d, m) }]
    ELSE [d EXCEPT !.intent = @ \ {c}, !.result = {}]

ExecuteQueryDb(c, kind) ==
  /\ ExecuteQueryRouter(c, kind)
  /\ db' = DbExecute(db, last'.conn, kind, c)

BeginTransactionDb(c, settings, ok) ==
  /\ BeginTransactionRouter(c, settings, ok)
  /\ db' = DbBegin(db, last'.conn, c, ok)

CommitTransactionDb(c, ok) ==
  /\ CommitTransactionRouter(c, ok)
  /\ db' = DbCommit(db, last'.conn, c, ok)

RollbackTransactionDb(c, ok) ==
  /\ RollbackTransactionRouter(c, ok)
  /\ db' = DbRollback(db, last'.conn, c, ok)

\* streamQuery is not async: the closure runs to its return statement when
\* it is called and returns the iterator that the streamQuery of the chosen
\* member connection returned
streamQueryOpened(c, kind) ==
  [c |-> c, kind |-> kind, m |-> Member(c, streamQuerySide(c, kind)),
   inTx |-> connectionId(c) \in transactions]

streamServedBy_AtConsumption(cur) == Member(cur.c, streamQuerySide(cur.c, cur.kind))

\* the member connection a chunk of the stream is read from: the one whose
\* iterator the caller holds
streamServedBy(cur) == cur.m

StreamQueryDb(c, kind) ==
  /\ StreamQueryRouter(c, kind)
  /\ db' = [db EXCEPT !.cursor = streamQueryOpened(c, kind), !.served = NoServed]

\* the caller reads the next chunk of the stream it holds
StreamConsume ==
  /\ db.cursor # NoCursor
  /\ Live(db.cursor.c)
  /\ db' = [db EXCEPT !.served =
               [c |-> db.cursor.c, kind |-> db.cursor.kind,
                by |-> streamServedBy(db.cursor),
                openedInTx |-> db.cursor.inTx,
                inTxNow |-> connectionId(db.cursor.c) \in transactions]]
  /\ UNCHANGED <<lifecycleVars, transactions, conn, hist, last>>

\* The router together with the databases behind its pools.  The databases
\* multiply the states of every connection, so this specification acquires
\* at most MaxStoreAcq connections.
StoreConfigs ==
  { [read |-> "p1", write |-> "p1"],
    [read |-> "p1", write |-> "p2"] }

StoreInit == Init /\ config \in StoreConfigs

StoreNext ==
  \/ DriverInit({})
  \/ \E c \in 1..MaxStoreAcq : AcquireStart(c)
  \/ \E c \in ConnIds, side \in Sides : SubAcquire(c, side, PoolOpen(side))
  \/ \E c \in ConnIds, kind \in Kinds : ExecuteQueryDb(c, kind)
  \/ \E c \in ConnIds, s \in Settings, ok \in BOOLEAN : BeginTransactionDb(c, s, ok)
  \/ \E c \in ConnIds, ok \in BOOLEAN : CommitTransactionDb(c, ok)
  \/ \E c \in ConnIds, ok \in BOOLEAN : RollbackTransactionDb(c, ok)
  \/ \E c \in ConnIds : ReleaseConnection(c, TRUE, TRUE)

StoreSpec == StoreInit /\ [][StoreNext]_vars

\* The router with the streams it hands out: a stream is obtained by one
\* call and read by later ones, with transaction calls in between.
StreamNext ==
  \/ DriverInit({})
  \/ \E c \in 1..MaxStoreAcq : AcquireStart(c)
  \/ \E c \in ConnIds, side \in Sides : SubAcquire(c, side, PoolOpen(side))
  \/ \E c \in ConnIds, kind \in Kinds : StreamQueryDb(c, kind)
  \/ StreamConsume
  \/ \E c \in ConnIds, s \in Settings, ok \in BOOLEAN : BeginTransaction(c, s, ok)
  \/ \E c \in ConnIds, ok \in BOOLEAN : CommitTransaction(c, ok)
  \/ \E c \in ConnIds, ok \in BOOLEAN : RollbackTransaction(c, ok)
  \/ \E c \in ConnIds : ReleaseConnection(c, TRUE, TRUE)

StreamSpec == StoreInit /\ [][StreamNext]_vars

\* One pool object for both roles, with a limit on the connections it hands
\* out at a time: a request made while all of them are checked out waits
\* until one is given back.
PoolCapacity == 2

InUse(pool) ==
  Cardinality({ m \in Sides \X ConnIds :
                  resolved[m[1]] = pool /\ SubState(m[2], m[1]) = "held" })

SubAcquireBounded(c, side) ==
  /\ InUse(resolved[side]) < PoolCapacity
  /\ SubAcquire(c, side, TRUE)

CapacityInit == Init /\ config = [read |-> "p1", write |-> "p1"]

CapacityNext ==
  \/ DriverInit({})
  \/ \E c \in ConnIds : AcquireStart(c)
  \/ \E c \in ConnIds, side \in Sides : SubAcquireBounded(c, side)
  \/ \E c \in ConnIds, kind \in Kinds : ExecuteQuery(c, kind)
  \/ \E c \in ConnIds, s \in Settings, ok \in BOOLEAN : BeginTransaction(c, s, ok)
  \/ \E c \in ConnIds, ok \in BOOLEAN : CommitTransaction(c, ok)
  \/ \E c \in ConnIds, ok \in BOOLEAN : RollbackTransaction(c, ok)
  \/ \E c \in ConnIds : ReleaseConnection(c, TRUE, TRUE)

\* a pool serves a request it can serve, and every connection handed to the
\* caller is released in the end
CapacityFairness ==
  /\ \A c \in ConnIds, side \in Sides : WF_vars(SubAcquireBounded(c, side))
  /\ \A c \in ConnIds : WF_vars(ReleaseConnection(c, TRUE, TRUE))

CapacitySpec == CapacityInit /\ [][CapacityNext]_vars /\ CapacityFairness

\* The earlier MySQL-only drivers (class MysqlReplicaDriver): the same
\* acquisition, executeQuery closure, transaction calls and release as
\* ReplicaDriver, and a streamQuery closure of one line.
MysqlReplicaDriver_streamQuerySide_Routed(c, kind) ==
  IF connectionId(c) \in transactions THEN "write"
  ELSE IF SelectQueryNodeIs(kind) THEN "read" ELSE "write"

\* streamQuery: (...args) => readConnection.streamQuery(...args)
MysqlReplicaDriver_streamQuerySide(c, kind) == "read"

MysqlReplicaDriverStreamQuery(c, kind) ==
  /\ Live(c)
  /\ LET side == MysqlReplicaDriver_streamQuerySide(c, kind)
     IN last' = [NoLast EXCEPT !.op = "streamQuery", !.c = c, !.kind = kind,
                               !.side = side, !.conn = Member(c, side),
                               !.inTx = (connectionId(c) \in transactions), !.hist = hist[c],
                               !.result = IF PoolOpen(side) THEN "ok" ELSE "error"]
  /\ UNCHANGED <<lifecycleVars, transactions, conn, hist, db>>

MysqlReplicaDriverNext ==
  \/ DriverInit({})
  \/ \E c \in ConnIds : AcquireStart(c)
  \/ \E c \in ConnIds, side \in Sides : SubAcquire(c, side, PoolOpen(side))
  \/ \E c \in ConnIds, kind \in Kinds : ExecuteQuery(c, kind)
  \/ \E c \in ConnIds, kind \in Kinds : MysqlReplicaDriverStreamQuery(c, kind)
  \/ \E c \in ConnIds, s \in Settings, ok \in BOOLEAN : BeginTransaction(c, s, ok)
  \/ \E c \in ConnIds, ok \in BOOLEAN : CommitTransaction(c, ok)
  \/ \E c \in ConnIds, ok \in BOOLEAN : RollbackTransaction(c, ok)
  \/ \E c \in ConnIds : ReleaseConnection(c, TRUE, TRUE)

MysqlReplicaDriverSpec == StoreInit /\ [][MysqlReplicaDriverNext]_vars

\* The configurations with a pool factory for each role: a factory may
\* reject when init() invokes it; the pools are healthy otherwise.
InitFaultNext ==
  \/ \E faults \in SUBSET Sides : DriverInit(faults)
  \/ Next

InitFaultInit == Init /\ IsFunction(config.read) /\ IsFunction(config.write)

InitFaultSpec == InitFaultInit /\ [][InitFaultNext]_vars

\* The configurations with a pool object for each role, the same one or
\* two, with healthy pools.
PoolObjectsInit == Init /\ config \in StoreConfigs

PoolObjectsSpec == PoolObjectsInit /\ [][Next]_vars

\* The same, with a caller that calls destroy() more than once.
RepeatDestroyNext ==
  \/ Next
  \/ DestroyAgain({})

RepeatDestroySpec == PoolObjectsInit /\ [][RepeatDestroyNext]_vars

\* Construction with any type, followed by the use of the driver if one
\* came of it: a constructor that threw leaves no object to call.
ConstructInit == InitRest /\ config \in StoreConfigs /\ ctor = NoCtor

ConstructNext ==
  \/ \E type \in Types, shape \in Shapes : Construct(type, shape)
  \/ ctor.result = "ok" /\ Next

ConstructSpec == ConstructInit /\ [][ConstructNext]_vars

TypeOK ==
  /\ config \in Configs
  /\ phase \in {"new", "initFailed", "ready", "destroyed"}
  /\ transactions \subseteq ConnIds
  /\ \A c \in ConnIds : hist[c] \in {"none", "begun", "ended"}

\* ================================================================ properties
QueryOps == {"executeQuery", "streamQuery"}

TransactionOps == {"beginTransaction", "commitTransaction", "rollbackTransaction"}

NonTransactionalSide(kind) == IF kind = "SelectQueryNode" THEN "read" ELSE "write"

\* C1: an executeQuery call made while the connection's id is in the
\* registry is handed to the connection's write-side member, whatever the
\* statement kind, a select included.
C1_InTransactionExecuteOnWrite ==
  (last.op = "executeQuery" /\ last.inTx)
    => (last.side = "write" /\ last.conn = Member(last.c, "write"))

C1_Witness ==
  /\ last.op = "executeQuery"
  /\ last.inTx
  /\ last.kind = "SelectQueryNode"
  /\ last.side = "write"

\* C2: an executeQuery call with a select, made while the connection's id is
\* not in the registry, is handed to the read-side member and not to the
\* write-side one.
C2_SelectOutsideTransactionOnRead ==
  (last.op = "executeQuery" /\ ~last.inTx /\ last.kind = "SelectQueryNode")
    => (last.side = "read" /\ last.conn = Member(last.c, "read")
        /\ last.conn # Member(last.c, "write"))

C2_Witness ==
  /\ last.op = "executeQuery"
  /\ ~last.inTx
  /\ last.kind = "SelectQueryNode"
  /\ last.conn = Member(last.c, "read")

\* C3: an executeQuery call with a statement that is not a select, made while
\* the connection's id is not in the registry, is handed to the write-side
\* member and not to the read-side one.
C3_NonSelectOutsideTransactionOnWrite ==
  (last.op = "executeQuery" /\ ~last.inTx /\ last.kind # "SelectQueryNode")
    => (last.side = "write" /\ last.conn = Member(last.c, "write")
        /\ last.conn # Member(last.c, "read"))

C3_Witness ==
  /\ last.op = "executeQuery"
  /\ ~last.inTx
  /\ last.kind = "CreateTableNode"
  /\ last.conn = Member(last.c, "write")

\* C4: a streamQuery call made while the connection's id is in the registry
\* is served by the write-side member, for a streamed write statement and
\* for a streamed select alike.
C4_InTransactionStreamOnWrite ==
  (last.op = "streamQuery" /\ last.inTx)
    => (last.side = "write" /\ last.conn = Member(last.c, "write"))

C4_Witness ==
  /\ last.op = "streamQuery"
  /\ last.inTx
  /\ last.kind = "InsertQueryNode"
  /\ last.side = "write"

\* C5: for every statement kind and every transaction state of a connection,
\* streamQuery selects the side executeQuery selects for that statement in
\* that state; a stream that was served went to the side executeQuery picks.
C5_StreamRoutesLikeExecute ==
  /\ \A c \in ConnIds, k \in Kinds :
       Live(c) => streamQuerySide(c, k) = executeQuerySide(c, k)
  /\ last.op = "streamQuery" => last.side = executeQuerySide(last.c, last.kind)

C5_Witness ==
  /\ last.op = "streamQuery"
  /\ \E c \in ConnIds : Live(c) /\ c \in transactions
  /\ \E c \in ConnIds : Live(c) /\ c \notin transactions

\* C6: between beginTransaction and the matching commit or rollback of a
\* connection, every statement of that connection goes to its write-side
\* member, and begin, commit and rollback go there too; its read-side member
\* receives none of these calls.
C6_TransactionNeverSplits ==
  /\ (last.op \in QueryOps /\ last.hist = "begun")
       => (last.conn = Member(last.c, "write") /\ last.conn # Member(last.c, "read"))
  /\ last.op \in TransactionOps
       => (last.side = "write" /\ last.conn = Member(last.c, "write"))

C6_Witness ==
  /\ last.op = "streamQuery"
  /\ last.hist = "begun"
  /\ last.kind = "SelectQueryNode"
  /\ last.conn = Member(last.c, "write")

\* C7: in every reachable state a connection id is in the registry exactly
\* when beginTransaction has been called for the connection and neither
\* commitTransaction nor rollbackTransaction has been called for it since.
C7_RegistryIffBegun ==
  \A c \in ConnIds : (c \in transactions) <=> (hist[c] = "begun")

C7_Witness ==
  \E c, d \in ConnIds :
    /\ hist[c] = "begun" /\ c \in transactions
    /\ hist[d] = "ended" /\ d \notin transactions

\* C8: right after commitTransaction or rollbackTransaction the connection's
\* id is not in the registry, and a query issued on a connection whose last
\* transaction call was a commit or rollback, or that never began one, goes
\* to read for a select and to write for anything else.
C8_AfterEndNonTransactional ==
  /\ last.op \in {"commitTransaction", "rollbackTransaction"}
       => last.c \notin transactions
  /\ (last.op \in QueryOps /\ last.hist \in {"ended", "none"})
       => last.side = NonTransactionalSide(last.kind)

C8_Witness ==
  /\ last.op = "executeQuery"
  /\ last.hist = "ended"
  /\ last.kind = "SelectQueryNode"
  /\ last.side = "read"

\* C9: releaseConnection on a connection whose transaction was left open
\* removes its id from the registry, so the registry never holds the id of a
\* released connection.
C9_ReleasedNotInRegistry ==
  \A c \in ConnIds : conn[c].st = "released" => c \notin transactions

\* C10: with one pool object configured for both roles, destroy() invokes the
\* teardown of that pool exactly once, no other pool is torn down, and
\* destroy() reports no error unless that one teardown itself reported one.
SamePoolObject == config.read = config.write /\ config.read \in PoolObjects

C10_SamePoolDestroyedOnce ==
  (phase = "destroyed" /\ SamePoolObject)
    => /\ teardowns[config.write] = 1
       /\ \A p \in Pools \ {config.write} : teardowns[p] = 0
       /\ (destroyResult = "ok" \/ teardownFault)

C10_Witness ==
  /\ phase = "destroyed"
  /\ SamePoolObject
  /\ teardowns[config.write] = 1
  /\ destroyResult = "ok"

\* C11: with two distinct pool objects configured, a destroy() that succeeds
\* has torn down both underlying drivers: the read pool and the write pool
\* have each been ended and are closed.
DistinctPoolObjects ==
  /\ config.read \in PoolObjects
  /\ config.write \in PoolObjects
  /\ config.read # config.write

C11_DistinctPoolsBothDestroyed ==
  (phase = "destroyed" /\ DistinctPoolObjects /\ destroyResult = "ok")
    => /\ teardowns[config.read] = 1 /\ config.read \in closed
       /\ teardowns[config.write] = 1 /\ config.write \in closed

C11_Witness ==
  /\ phase = "destroyed"
  /\ DistinctPoolObjects
  /\ destroyResult = "ok"
  /\ closed = {"p1", "p2"}

\* C12: with factories configured for both roles, destroy() tears down each
\* distinct resolved pool exactly once: once when both factories resolved to
\* one pool object, and both pools when the resolved pools are distinct
\* objects, also when one factory function is configured for both roles.
FactoriesConfigured == IsFunction(config.read) /\ IsFunction(config.write)

C12_EachResolvedPoolOnce ==
  (phase = "destroyed" /\ FactoriesConfigured)
    => \A s \in Sides : teardowns[resolved[s]] = 1

\* C13: beginTransaction(conn, settings) puts the connection's id into the
\* registry (also when the write driver's call then fails) and starts the
\* transaction on the write-side driver only, with the connection's
\* write-side member and the caller's settings unchanged; the read side
\* never receives a beginTransaction.
C13_BeginOnWriteWithSettings ==
  last.op = "beginTransaction"
    => /\ last.c \in transactions
       /\ last.side = "write"
       /\ last.conn = Member(last.c, "write")
       /\ last.conn # Member(last.c, "read")
       /\ last.settings = last.arg

C13_Witness ==
  /\ last.op = "beginTransaction"
  /\ last.arg = "serializable"
  /\ last.settings = "serializable"
  /\ last.result = "ok"
  /\ last.c \in transactions

\* C14: commitTransaction and rollbackTransaction take the connection's id
\* out of the registry and are handed to the connection's write-side member,
\* never to the read-side one; after a rollback that succeeded, no row
\* written inside the transaction is visible in the database behind the
\* write pool, and the write-side member has no open transaction.
C14_EndOnWriteRollbackInvisible ==
  (last.op \in {"commitTransaction", "rollbackTransaction"})
    => /\ last.c \notin transactions
       /\ last.side = "write"
       /\ last.conn = Member(last.c, "write")
       /\ last.conn # Member(last.c, "read")
       /\ (last.op = "rollbackTransaction" /\ last.result = "ok")
            => /\ <<resolved["write"], <<last.c, "tx">>>> \notin db.store
               /\ Member(last.c, "write") \notin db.tx

C14_Witness ==
  /\ last.op = "rollbackTransaction"
  /\ last.result = "ok"
  /\ <<last.c, "tx">> \in db.result
  /\ \E r \in Rows : <<resolved["write"], r>> \in db.store

\* C15: once acquireConnection has been called, both underlying
\* acquisitions have been issued: no side is still unissued while the other
\* is waiting or done.  The call resolves only when both have completed,
\* whichever completed first, and the connection it returns holds a member
\* of each side.
C15_BothIssuedResolvedAfterBoth ==
  \A c \in ConnIds :
    /\ conn[c].st # "none" => (conn[c].rd # "idle" /\ conn[c].wr # "idle")
    /\ conn[c].st = "pending" => (conn[c].rd = "waiting" \/ conn[c].wr = "waiting")
    /\ Live(c) => (conn[c].rd = "held" /\ conn[c].wr = "held")

\* two acquisitions in flight at once, the read side of one and the write
\* side of the other having completed first
C15_Witness ==
  \E c, d \in ConnIds :
    /\ conn[c].st = "pending" /\ conn[c].rd = "held" /\ conn[c].wr = "waiting"
    /\ conn[d].st = "pending" /\ conn[d].wr = "held" /\ conn[d].rd = "waiting"

\* C16: when acquireConnection has failed and both underlying acquisitions
\* have settled, no underlying connection of that call is still checked
\* out: the side that succeeded has been released again.
C16_FailedAcquireHoldsNothing ==
  \A c \in ConnIds :
    (conn[c].st = "failed" /\ conn[c].rd # "waiting" /\ conn[c].wr # "waiting")
      => (conn[c].rd # "held" /\ conn[c].wr # "held")

\* C17: releaseConnection releases the write-side member first and the
\* read-side member after it: the read-side member is never released while
\* the write-side one is still checked out.  When neither release fails,
\* both members have been released when the call resolves.
C17_ReleaseWriteThenRead ==
  \A c \in ConnIds :
    /\ conn[c].rd = "released" => conn[c].wr = "released"
    /\ conn[c].st = "released" => (conn[c].wr = "released" /\ conn[c].rd = "released")
    /\ conn[c].st = "releaseFailed" => conn[c].rd = "held"

\* one release went through, and another got past the write-side release
\* and failed at the read-side one
C17_Witness ==
  \E c, d \in ConnIds :
    /\ conn[c].st = "released" /\ conn[c].wr = "released" /\ conn[c].rd = "released"
    /\ conn[d].st = "releaseFailed" /\ conn[d].wr = "released" /\ conn[d].rd = "held"

\* C18: the ids of different acquisitions differ, and whether a connection
\* is in the registry, and with it the side its statements are routed to,
\* depends on the transaction calls made on that very connection alone: it
\* is in the registry exactly when its own last transaction call was a
\* beginTransaction, whatever was called on other connections in between.
C18_ConnectionsIndependent ==
  /\ \A c, d \in ConnIds : connectionId(c) = connectionId(d) => c = d
  /\ \A d \in ConnIds :
       LET own == hist[d] = "begun"
       IN /\ (connectionId(d) \in transactions) = own
          /\ \A kind \in Kinds :
               /\ executeQuerySide(d, kind)
                    = (IF own THEN "write" ELSE NonTransactionalSide(kind))
               /\ streamQuerySide(d, kind)
                    = (IF own THEN "write" ELSE NonTransactionalSide(kind))

\* one connection is inside a transaction while another one, which began a
\* transaction of its own, has just ended it
C18_Witness ==
  \E c, d \in ConnIds :
    /\ c # d
    /\ hist[c] = "begun" /\ c \in transactions
    /\ last.op \in {"commitTransaction", "rollbackTransaction"}
    /\ last.c = d
    /\ last.result = "ok"

\* C19: a constructor given a type other than "mysql" and "pg" throws
\* "Only MySQL and Postgres are supported"; it has created no underlying
\* driver, and nothing has been resolved, initialised or acquired.
C19_UnknownTypeThrows ==
  (ctor.result # "none" /\ ctor.type \notin {"mysql", "pg"})
    => /\ ctor.result = "threw"
       /\ ctor.error = "Only MySQL and Postgres are supported"
       /\ ctor.drivers = {}
       /\ phase = "new"
       /\ \A s \in Sides : resolved[s] = "none"
       /\ \A c \in ConnIds : conn[c].st = "none"

C19_Witness ==
  /\ ctor.type = "whatever"
  /\ ctor.result = "threw"

\* C20: once destroy() has completed, with one pool object configured for
\* both roles or with two pool objects, the pool of each side is closed,
\* and from then on no underlying acquisition succeeds, no acquireConnection
\* resolves and every executeQuery or streamQuery ends in an error.
DestroyCompleted ==
  /\ phase = "destroyed"
  /\ destroyResult = "ok"
  /\ SamePoolObject \/ DistinctPoolObjects

C20_AfterDestroyEverythingFails ==
  /\ [](DestroyCompleted => \A s \in Sides : ~PoolOpen(s))
  /\ [][DestroyCompleted =>
          /\ \A c \in ConnIds :
               /\ conn'[c].rd = "held" => conn[c].rd = "held"
               /\ conn'[c].wr = "held" => conn[c].wr = "held"
               /\ Live(c)' => Live(c)
          /\ (last' # last /\ last'.op \in QueryOps) => last'.result = "error"]_vars

\* with one pool object for both roles, where only the write driver was
\* destroyed: a select on a connection acquired before destroy() has failed,
\* and so has an acquisition made after it
C20_Witness ==
  /\ DestroyCompleted
  /\ SamePoolObject
  /\ last.op = "executeQuery" /\ last.side = "read" /\ last.result = "error"
  /\ \E c \in ConnIds : conn[c].st = "failed" /\ conn[c].rd = "failed"
                        /\ conn[c].wr = "failed"

\* C21: a driver of a supported type constructed from a config with a
\* single pool entry, and no pools entry, is constructed successfully.
C21_SinglePoolConfigAccepted ==
  (ctor.result # "none" /\ ctor.shape = "pool" /\ ctor.type \in {"mysql", "pg"})
    => ctor.result = "ok"

SelectOutsideTransaction ==
  /\ last.op = "executeQuery"
  /\ last.kind = "SelectQueryNode"
  /\ ~last.inTx

C23_DistinctStoresSelectReadsReadStore ==
  DistinctPoolObjects
    => /\ \A e \in db.store : e[1] = resolved["write"]
       /\ SelectOutsideTransaction
            => (db.result = StoredIn(db, resolved["read"]) /\ db.result = {})

C23_Witness ==
  /\ DistinctPoolObjects
  /\ SelectOutsideTransaction
  /\ <<last.c, "ok">> \in StoredIn(db, resolved["write"])
  /\ db.result = {}

\* C24: with two pool objects backed by different databases, a select
\* issued inside a transaction returns the rows inserted earlier inside the
\* same transaction.
C24_ReadYourWritesInTransaction ==
  (/\ DistinctPoolObjects
   /\ last.op = "executeQuery"
   /\ last.kind = "SelectQueryNode"
   /\ last.inTx
   /\ <<Member(last.c, "write"), <<last.c, "tx">>>> \in db.pending)
    => <<last.c, "tx">> \in db.result

C24_Witness ==
  /\ DistinctPoolObjects
  /\ last.op = "executeQuery"
  /\ last.kind = "SelectQueryNode"
  /\ last.inTx
  /\ <<last.c, "tx">> \in db.result

\* C25: init() ends successfully only when the init() of both drivers was
\* called and succeeded, so that the pool of each side is resolved; when the
\* pool factory of either side rejects, init() fails.
C25_InitNeedsBothDrivers ==
  init.result # "-"
    => /\ init.result = "ok"
            => /\ \A s \in Sides : \E i \in DOMAIN init.called : init.called[i] = s
               /\ init.rejected = {}
               /\ \A s \in Sides : resolved[s] # "none"
       /\ init.rejected # {} => (init.result = "error" /\ phase = "initFailed")

\* the read driver was initialised, the factory of the write pool rejected
C25_Witness ==
  /\ init.result = "error"
  /\ init.rejected = {"write"}
  /\ resolved["read"] # "none"
  /\ resolved["write"] = "none"

\* C26: the step in which a pool factory rejects is init(), and init() ends
\* in an error in that very step, when no acquisition has been issued on
\* either side yet.
C26_FactoryRejectionBeforeAcquire ==
  [][(init.result = "-" /\ init'.rejected # {})
       => /\ init'.result = "error"
          /\ phase' = "initFailed"
          /\ \A c \in ConnIds : conn'[c] = [st |-> "none", rd |-> "idle", wr |-> "idle"]]_vars

\* the factory of the read pool rejected: init() has failed without calling
\* the write driver, and nothing has been acquired
C26_Witness ==
  /\ init.rejected = {"read"}
  /\ init.result = "error"
  /\ init.called = <<"read">>
  /\ \A c \in ConnIds : conn[c].st = "none"

C28_ExecuteOneCallResultPassedOn ==
  last.op = "executeQuery"
    => /\ Cardinality(last.calls) = 1
       /\ last.calls \subseteq {Member(last.c, "read"), Member(last.c, "write")}
       /\ last.calls = {last.conn}
       /\ last.returned = last.result

\* a call that ended in an error of the member connection, and the caller
\* received that error
C28_Witness ==
  /\ last.op = "executeQuery"
  /\ last.calls = {Member(last.c, "read")}
  /\ last.result = "error"
  /\ last.returned = "error"

CheckedOut(side) == { c \in ConnIds : SubState(c, side) = "held" }

Quiescent ==
  \A c \in ConnIds : conn[c].rd # "waiting" /\ conn[c].wr # "waiting"

\* C29: whenever no underlying acquisition is in flight, as many read-side
\* members are checked out as write-side members, namely one of each for
\* every live connection, and none of either when no connection is live.
C29_CheckedOutMatchesLive ==
  Quiescent
    => /\ CheckedOut("read") = { c \in ConnIds : Live(c) }
       /\ CheckedOut("write") = { c \in ConnIds : Live(c) }

\* C30: when releaseConnection has ended, the read-side member has been
\* released, also when the release of the write-side member failed.
C30_ReadReleasedDespiteWriteFailure ==
  \A c \in ConnIds :
    (conn[c].st = "releaseFailed" /\ conn[c].wr = "held")
      => conn[c].rd = "released"

\* C31: however many times destroy() is called, and whatever else is called
\* on the driver, no pool has its teardown invoked more than once.
C31_EachPoolTornDownAtMostOnce ==
  \A p \in Pools : teardowns[p] <= 1

\* C32: destroy() does nothing but tear down the underlying drivers: it
\* writes no line to the console.
C32_DestroyWritesNothing ==
  phase = "destroyed" => consoleLines = 0

\* C33: a step that changes the transaction registry is a beginTransaction,
\* commitTransaction or rollbackTransaction call; a step of
\* acquireConnection, executeQuery, streamQuery, init() or destroy(), or any
\* other step that changes a connection or the driver's phase, leaves the
\* registry as it was.
C33_RegistryChangedByTransactionCallsOnly ==
  [][/\ transactions' # transactions
          => (last' # last /\ last'.op \in TransactionOps)
     /\ (\/ conn' # conn
         \/ phase' # phase
         \/ init' # init
         \/ (last' # last /\ last'.op \in QueryOps))
          => transactions' = transactions]_vars

\* a connection began a transaction; the other connection was acquired,
\* destroy() ran and a query was made, and the id is still in the registry
C33_Witness ==
  /\ phase = "destroyed"
  /\ last.op \in QueryOps
  /\ \E c, d \in ConnIds :
       /\ c # d
       /\ connectionId(c) \in transactions
       /\ conn[c].st = "released"
       /\ conn[d].st = "live"

\* C34: when the write driver's beginTransaction has failed, the
\* connection's id is not in the registry and a select on the connection is
\* routed to the read side.
C34_FailedBeginNotInRegistry ==
  (last.op = "beginTransaction" /\ last.result = "error")
    => /\ connectionId(last.c) \notin transactions
       /\ executeQuerySide(last.c, "SelectQueryNode") = "read"

\* C35: as long as the write-side member of a connection has an open
\* database transaction, the connection's id is in the registry and its
\* statements are routed to the write side, also after a commitTransaction
\* or rollbackTransaction that failed.
C35_OpenTransactionStaysRegistered ==
  \A c \in ConnIds :
    Member(c, "write") \in db.tx
      => /\ connectionId(c) \in transactions
         /\ \A kind \in Kinds : executeQuerySide(c, kind) = "write"

\* C36: a chunk of a stream is read from the member connection chosen when
\* streamQuery was called, from the registry membership at that moment: the
\* write-side member for a stream obtained inside a transaction, also when
\* it is read after commit or rollback, and the read-side member for a
\* select stream obtained outside a transaction, also when it is read after
\* beginTransaction.
C36_StreamSideFixedAtCall ==
  db.served # NoServed
    => db.served.by =
         Member(db.served.c, IF db.served.openedInTx THEN "write"
                             ELSE NonTransactionalSide(db.served.kind))

\* a select stream obtained inside a transaction is read after the
\* transaction has ended, from the write-side member
C36_Witness ==
  /\ db.served.openedInTx
  /\ ~db.served.inTxNow
  /\ db.served.kind = "SelectQueryNode"
  /\ db.served.by = Member(db.served.c, "write")
  /\ hist[db.served.c] = "ended"

\* C37: with one pool of limited capacity for both roles, and every
\* connection handed out released in the end, every acquireConnection call
\* that has been made resolves in the end with a connection.
C37_AcquireEventuallyResolves ==
  \A c \in ConnIds : (conn[c].st = "pending") ~> Live(c)

\* C38: with two pool objects configured, destroy() tears down the write
\* pool before the read pool, and the read pool has been torn down when
\* destroy() has ended, also when the teardown of the write pool failed.
C38_ReadDestroyedDespiteWriteFailure ==
  (phase = "destroyed" /\ DistinctPoolObjects)
    => /\ teardowns[config.write] = 1
       /\ teardowns[config.read] = 1

====
